---- MODULE Spec2Model ----
(***************************************************************************)
(* Model of policyeval/commands.go: the command handler (HandleCommand),   *)
(* the report handler (HandleReport), validateEntity and SendPolicy.       *)
(* Strings are TLA+ strings; a message body is the raw text and is split   *)
(* with Fields as the code does.  The policy store, the list registry, the *)
(* glob matcher and the membership cache are collaborators of the file and *)
(* are modelled from their documented contracts.                           *)
(***************************************************************************)
EXTENDS Integers, Sequences, FiniteSets, TLC

VARIABLES
    policies,   \* the policy state events of the list rooms (active records)
    config,     \* the evaluator's configuration (crypto helper, dry run, ...)
    last,       \* what the handler that ran last did (its calls and result)
    nsent,      \* number of state events sent so far
    inflight    \* per goroutine: the state event a handler is about to send

vars == <<policies, config, last, nsent, inflight>>

(* ------------------------------ bounds --------------------------------- *)

\* number of state events sent to the list rooms in one behaviour
MaxSends == 3
\* the same, in the behaviours with reports
MaxReportSends == 4
\* the same, in the behaviours with concurrent handlers
MaxConcSends == 3
\* number of goroutines that handle events at the same time
NumWorkers == 2
\* number of users known to the protected rooms
NumUsers == 11
\* length of the strings given to validateEntity
MaxEntityLen == 3

(* --------------------------- program constants -------------------------- *)

\* id.TrustStateCrossSignedTOFU, the minimum trust state of a command
TrustStateCrossSignedTOFU == 100
\* the number of users a !kick may match without --force
KickUserLimit == 10

RecBan == "m.ban"
RecUnban == "fi.mau.meowlnir.unban"
RecTakedown == "org.matrix.msc4204.takedown"

EntityTypeUser == "user"
EntityTypeRoom == "room"
EntityTypeServer == "server"

(* ------------------------------ strings --------------------------------- *)

\* strings.HasPrefix
HasPrefix(s, prefix) ==
    /\ Len(s) >= Len(prefix)
    /\ SubSeq(s, 1, Len(prefix)) = prefix

\* the i-th byte of s (1-based)
CharAt(s, i) == SubSeq(s, i, i)

\* strings.Fields: the maximal runs of non-space characters of s, in order
RECURSIVE FieldsFrom(_, _, _)
FieldsFrom(s, cur, acc) ==
    IF s = ""
    THEN IF cur = "" THEN acc ELSE Append(acc, cur)
    ELSE IF Head(s) = " "
         THEN FieldsFrom(Tail(s), "", IF cur = "" THEN acc ELSE Append(acc, cur))
         ELSE FieldsFrom(Tail(s), cur \o Head(s), acc)

Fields(s) == FieldsFrom(s, "", <<>>)

\* strings.Join(elems, " ")
RECURSIVE JoinSpace(_)
JoinSpace(elems) ==
    IF elems = <<>> THEN ""
    ELSE IF Len(elems) = 1 THEN elems[1]
    ELSE elems[1] \o " " \o JoinSpace(Tail(elems))

UpperCase == "ABCDEFGHIJKLMNOPQRSTUVWXYZ"
LowerCase == "abcdefghijklmnopqrstuvwxyz"

\* strings.ToLower, on ASCII
RECURSIVE ToLower(_)
ToLower(s) ==
    IF s = "" THEN ""
    ELSE LET c == Head(s)
             at == {i \in 1..Len(UpperCase) : CharAt(UpperCase, i) = c}
             lc == IF at = {} THEN c ELSE CharAt(LowerCase, CHOOSE i \in at : TRUE)
         IN  lc \o ToLower(Tail(s))

\* strings.TrimPrefix
TrimPrefix(s, prefix) ==
    IF HasPrefix(s, prefix) THEN SubSeq(s, Len(prefix) + 1, Len(s)) ELSE s

\* args[n:] of a Go slice, n counted from 0
Drop(args, n) == SubSeq(args, n + 1, Len(args))

\* glob.Compile(pattern).Match(s): '*' matches any run, '?' any one character
RECURSIVE GlobMatch(_, _)
GlobMatch(pattern, s) ==
    IF pattern = "" THEN s = ""
    ELSE IF Head(pattern) = "*"
         THEN \/ GlobMatch(Tail(pattern), s)
              \/ s # "" /\ GlobMatch(pattern, Tail(s))
         ELSE /\ s # ""
              /\ (Head(pattern) = "?" \/ Head(pattern) = Head(s))
              /\ GlobMatch(Tail(pattern), Tail(s))

\* base64(sha256(s)): a digest, injective on the strings that occur
HashB64(s) == "sha256:" \o s

(* --------------------------- validateEntity ----------------------------- *)

\* the character class [a-zA-Z0-9*?-] of homeserverPatternRegex
HostChars ==
    {"a","b","c","d","e","f","g","h","i","j","k","l","m","n","o","p","q","r",
     "s","t","u","v","w","x","y","z",
     "A","B","C","D","E","F","G","H","I","J","K","L","M","N","O","P","Q","R",
     "S","T","U","V","W","X","Y","Z",
     "0","1","2","3","4","5","6","7","8","9","*","?","-"}

\* ^[a-zA-Z0-9.*?-]+\.[a-zA-Z0-9*?-]+$
homeserverPatternRegex(s) ==
    \E i \in 2..(Len(s) - 1) :
        /\ CharAt(s, i) = "."
        /\ \A j \in 1..(i - 1) : CharAt(s, j) \in HostChars \cup {"."}
        /\ \A j \in (i + 1)..Len(s) : CharAt(s, j) \in HostChars

\* a variant of the classifier below without the branch for rooms
validateEntityDropRoom(entity) ==
    IF Len(entity) = 0 THEN [type |-> "", ok |-> FALSE]
    ELSE IF CharAt(entity, 1) = "@" THEN [type |-> EntityTypeUser, ok |-> TRUE]
    ELSE IF homeserverPatternRegex(entity) THEN [type |-> EntityTypeServer, ok |-> TRUE]
    ELSE [type |-> "", ok |-> FALSE]

\* lines 345-357
validateEntity(entity) ==
    IF Len(entity) = 0 THEN [type |-> "", ok |-> FALSE]
    ELSE IF CharAt(entity, 1) = "@" THEN [type |-> EntityTypeUser, ok |-> TRUE]
    ELSE IF CharAt(entity, 1) = "!" THEN [type |-> EntityTypeRoom, ok |-> TRUE]
    ELSE IF homeserverPatternRegex(entity) THEN [type |-> EntityTypeServer, ok |-> TRUE]
    ELSE [type |-> "", ok |-> FALSE]

(* ------------------------- lists and the store --------------------------- *)

\* the watched policy lists: room ID, shortcode, display name
ListRooms == {"!list1:x", "!list2:x"}

\* pe.GetWatchedLists()
GetWatchedLists == ListRooms

\* pe.FindListByShortcode(shortcode); found = FALSE stands for nil
FindListByShortcode(shortcode) ==
    CASE shortcode = "l1" -> [found |-> TRUE, RoomID |-> "!list1:x", Name |-> "List One"]
      [] shortcode = "l2" -> [found |-> TRUE, RoomID |-> "!list2:x", Name |-> "List Two"]
      [] OTHER -> [found |-> FALSE, RoomID |-> "", Name |-> ""]

\* event.ModPolicyContent
Content(entity, hash, recommendation, reason) ==
    [Entity |-> entity, Hash |-> hash, Recommendation |-> recommendation,
     Reason |-> reason]

\* &event.ModPolicyContent{}: the content of a removal
EmptyContent == Content("", "", "", "")

\* a policy of the store: the state event (room, type, state key) and its content
Policy(room, type, stateKey, content) ==
    [RoomID |-> room, Type |-> type, StateKey |-> stateKey, Content |-> content]

\* a nil *policylist.Policy
NilPolicy == Policy("", "", "", EmptyContent)

\* the policy is a record about this entity: in plain text or by its digest
PolicyIsAbout(p, entity) ==
    \/ p.Content.Entity = entity
    \/ p.Content.Hash # "" /\ p.Content.Hash = HashB64(entity)

\* all orders in which a query may return the policies of S
Orderings(S) ==
    LET n == Cardinality(S)
    IN  {f \in [1..n -> S] : \A i, j \in 1..n : i # j => f[i] # f[j]}

\* Store.MatchExact(lists, entityType, entity): the policies of these lists
\* and this type whose entity is exactly this one
MatchExactSet(lists, entityType, entity) ==
    {p \in policies : /\ p.RoomID \in lists
                      /\ p.Type = entityType
                      /\ PolicyIsAbout(p, entity)}

\* Store.MatchUser / MatchRoom / MatchServer(lists, value): the policies of
\* these lists and this type whose entity, read as a glob, matches the value
MatchGlobSet(lists, entityType, value) ==
    {p \in policies : /\ p.RoomID \in lists
                      /\ p.Type = entityType
                      /\ \/ PolicyIsAbout(p, value)
                         \/ p.Content.Entity # "" /\ GlobMatch(p.Content.Entity, value)}

Min(S) == CHOOSE x \in S : \A y \in S : x <= y
Max(S) == CHOOSE x \in S : \A y \in S : x >= y

\* Match.Recommendations().BanOrUnban: the standing ban-or-unban record of a
\* match; an unban found anywhere beats every ban
BanOrUnban(match) ==
    LET unbans == {i \in 1..Len(match) : match[i].Content.Recommendation = RecUnban}
        bans == {i \in 1..Len(match) :
                    \/ match[i].Content.Recommendation = RecBan
                    \/ /\ config.takedownInSummary
                       /\ match[i].Content.Recommendation = RecTakedown}
    IN  IF unbans # {} THEN match[Min(unbans)]
        ELSE IF bans # {} THEN match[Min(bans)]
        ELSE NilPolicy

(* ------------------------------ SendPolicy ------------------------------ *)

\* the state key SendPolicy derives when none is given
FreshStateKey(rawEntity, recommendation) == HashB64(rawEntity \o recommendation)

\* SendPolicy up to the call of Bot.SendStateEvent: the state event it sends
SendPolicy(policyList, entityType, stateKey, rawEntity, content) ==
    Policy(policyList, entityType,
           IF stateKey = "" THEN FreshStateKey(rawEntity, content.Recommendation)
           ELSE stateKey,
           content)

\* Bot.SendStateEvent on the room state: the event replaces the one with the
\* same type and state key; an empty content leaves no active policy
SendStateEvent(state, evt) ==
    LET rest == {p \in state : ~(/\ p.RoomID = evt.RoomID
                                 /\ p.Type = evt.Type
                                 /\ p.StateKey = evt.StateKey)}
    IN  IF evt.Content = EmptyContent THEN rest ELSE rest \cup {evt}

(* --------------------------- handler outcomes --------------------------- *)

\* what a handler did: the notices and reaction it sent, the state events it
\* tried to send (with the result of each), the kicks it issued, its other
\* calls of the bot (join, leave, redact), its error
Outcome(op, cmd, input) ==
    [op |-> op, cmd |-> cmd, input |-> input, dropped |-> FALSE,
     crashed |-> FALSE, notices |-> <<>>, reaction |-> FALSE, sends |-> <<>>,
     kicks |-> <<>>, calls |-> <<>>, err |-> ""]

\* pe.sendNotice
Notice(kind, subject, room, count, text) ==
    [kind |-> kind, subject |-> subject, room |-> room, count |-> count,
     text |-> text]

sendNotice(out, notice) == [out EXCEPT !.notices = Append(@, notice)]

\* pe.sendSuccessReaction
sendSuccessReaction(out) == [out EXCEPT !.reaction = TRUE]

\* an index out of range: the handler panics
Panic(out) == [out EXCEPT !.crashed = TRUE]

\* a variant of the step below that does not return after the notice of a
\* failed send
AfterSendNoReturn(out, evt, failKind) ==
    {IF ok
     THEN sendSuccessReaction([out EXCEPT !.sends = Append(@, [evt |-> evt, ok |-> TRUE])])
     ELSE sendSuccessReaction(
            sendNotice([out EXCEPT !.sends = Append(@, [evt |-> evt, ok |-> FALSE])],
                       Notice(failKind, "", "", 0, "send failed"))) :
        ok \in BOOLEAN}

\* the two results of SendPolicy in a command: an error is reported in a
\* notice, a success is followed by the success reaction
AfterSend(out, evt, failKind) ==
    {IF ok
     THEN sendSuccessReaction([out EXCEPT !.sends = Append(@, [evt |-> evt, ok |-> TRUE])])
     ELSE sendNotice([out EXCEPT !.sends = Append(@, [evt |-> evt, ok |-> FALSE])],
                     Notice(failKind, "", "", 0, "send failed")) :
        ok \in BOOLEAN}

(* ------------------------ !ban and !takedown ---------------------------- *)

\* lines 156-161: the state key of the last policy of the match that is in
\* the target list and has exactly this entity, "" when there is none
ExistingStateKey(match, listRoom, target) ==
    LET hits == {i \in 1..Len(match) : /\ match[i].RoomID = listRoom
                                       /\ match[i].Content.Entity = target}
    IN  IF hits = {} THEN "" ELSE match[Max(hits)].StateKey

\* lines 162-177: the content of the policy of a !ban or !takedown
BanPolicy(cmd, hash, target, reason) ==
    LET entity == IF hash THEN "" ELSE target
        digest == IF hash THEN HashB64(target) ELSE ""
    IN  IF cmd = "!takedown" \/ cmd = "!takedown-user"
        THEN Content(entity, digest, RecTakedown, "")
        ELSE Content(entity, digest, RecBan, reason)

\* a variant of the check below in which any standing record blocks
BlockedByAnyRecommendation(rec) == rec # NilPolicy

\* lines 152-155: a standing unban blocks the ban
BlockedByUnban(rec) == rec # NilPolicy /\ rec.Content.Recommendation = RecUnban

\* lines 151-188, for one order of the match
BanWithMatch(out, cmd, hash, list, entityType, target, reason, match) ==
    LET rec == BanOrUnban(match)
    IN  IF BlockedByUnban(rec)
        THEN {sendNotice(out, Notice("UnbanRecommendation", target, "", 0,
                                     rec.Content.Reason))}
        ELSE AfterSend(out,
                       SendPolicy(list.RoomID, entityType,
                                  ExistingStateKey(match, list.RoomID, target),
                                  target, BanPolicy(cmd, hash, target, reason)),
                       "FailedToSendBan")

\* lines 131-188
HandleBan(out, cmd, args0) ==
    IF Len(args0) < 2
    THEN {sendNotice(out, Notice("Usage", cmd, "", 0, ""))}
    ELSE LET hash == args0[1] = "--hash"
             args == IF hash THEN Drop(args0, 1) ELSE args0
             list == FindListByShortcode(args[1])
         IN  IF ~list.found
             THEN {sendNotice(out, Notice("ListNotFound", args[1], "", 0, ""))}
             ELSE IF Len(args) < 2 THEN {Panic(out)}
             ELSE LET target == args[2]
                      v == validateEntity(target)
                  IN  IF ~v.ok
                      THEN {sendNotice(out, Notice("InvalidEntity", target, "", 0, ""))}
                      ELSE UNION {BanWithMatch(out, cmd, hash, list, v.type, target,
                                               JoinSpace(Drop(args, 2)), match) :
                                    match \in Orderings(
                                        MatchExactSet(GetWatchedLists, v.type, target))}

(* ------------- !remove-ban, !remove-unban and !remove-policy ------------ *)

\* lines 211-223, for one order of the match
RemoveWithMatch(out, cmd, list, entityType, target, match) ==
    LET rec == BanOrUnban(match)
        existingStateKey == IF rec # NilPolicy THEN rec.StateKey ELSE ""
    IN  IF /\ rec # NilPolicy
           /\ cmd = "!remove-unban"
           /\ rec.Content.Recommendation # RecUnban
        THEN {sendNotice(out, Notice("NoUnbanRecommendation", target, "", 0, ""))}
        ELSE IF /\ rec # NilPolicy
                /\ cmd = "!remove-ban"
                /\ rec.Content.Recommendation # RecBan
        THEN {sendNotice(out, Notice("NoBanRecommendation", target, "", 0, ""))}
        ELSE AfterSend(out,
                       SendPolicy(list.RoomID, entityType, existingStateKey, target,
                                  EmptyContent),
                       "FailedToRemove")

\* lines 189-233
HandleRemove(out, cmd, args) ==
    IF Len(args) < 2
    THEN {sendNotice(out, Notice("Usage", cmd, "", 0, ""))}
    ELSE LET list == FindListByShortcode(args[1])
         IN  IF ~list.found
             THEN {sendNotice(out, Notice("ListNotFound", args[1], "", 0, ""))}
             ELSE LET target == args[2]
                      v == validateEntity(target)
                      found == MatchExactSet({list.RoomID}, v.type, target)
                  IN  IF ~v.ok
                      THEN {sendNotice(out, Notice("InvalidEntity", target, "", 0, ""))}
                      ELSE IF found = {}
                      THEN {sendNotice(out, Notice("NoRule", target, list.RoomID, 0, ""))}
                      ELSE UNION {RemoveWithMatch(out, cmd, list, v.type, target, match) :
                                    match \in Orderings(found)}

(* ------------------------------ !add-unban ------------------------------ *)

\* lines 247-253: the entity type !add-unban assumes
AddUnbanEntityType(target) ==
    IF ~HasPrefix(target, "@") THEN EntityTypeServer ELSE EntityTypeUser

\* lines 254-278, for one order of the match
AddUnbanWithMatch(out, list, entityType, target, reason, match) ==
    LET rec == BanOrUnban(match)
        existingStateKey ==
            IF rec # NilPolicy /\ rec.RoomID = list.RoomID THEN rec.StateKey ELSE ""
    IN  IF rec # NilPolicy /\ rec.Content.Recommendation = RecUnban
        THEN {sendNotice(out, Notice("AlreadyUnban", target, "", 0,
                                     rec.Content.Reason))}
        ELSE AfterSend(out,
                       SendPolicy(list.RoomID, entityType, existingStateKey, target,
                                  Content(target, "", RecUnban, reason)),
                       "FailedToSendUnban")

\* lines 234-278
HandleAddUnban(out, cmd, args) ==
    IF Len(args) < 2
    THEN {sendNotice(out, Notice("Usage", cmd, "", 0, ""))}
    ELSE LET list == FindListByShortcode(args[1])
         IN  IF ~list.found
             THEN {sendNotice(out, Notice("ListNotFound", args[1], "", 0, ""))}
             ELSE LET target == args[2]
                      entityType == AddUnbanEntityType(target)
                  IN  UNION {AddUnbanWithMatch(out, list, entityType, target,
                                               JoinSpace(Drop(args, 2)), match) :
                               match \in Orderings(
                                   MatchGlobSet(GetWatchedLists, entityType, target))}

(* -------------------------------- !kick ---------------------------------- *)

\* the users the protected rooms know, in the order the bot lists them
UserSeq ==
    <<"@a0", "@a1", "@a2", "@a3", "@a4", "@a5", "@a6", "@a7", "@a8", "@a9",
      "@b1", "@b2", "@b3", "@b4">>

KnownUsers == SubSeq(UserSeq, 1, NumUsers)

ProtectedRooms == <<"!p1", "!p2", "!p3">>

\* slices.Collect(pe.findMatchingUsers(pattern, nil)): the known users the
\* glob matches, each once
findMatchingUsers(pattern) ==
    SelectSeq(KnownUsers, LAMBDA u : GlobMatch(pattern, u))

\* pe.getRoomsUserIsIn(userID): the protected rooms the user is a member of
getRoomsUserIsIn(userID) ==
    LET at == {k \in 1..Len(UserSeq) : UserSeq[k] = userID}
    IN  IF at = {} THEN <<>>
        ELSE SubSeq(ProtectedRooms, 1, (CHOOSE k \in at : TRUE) % 4)

\* the kicks the homeserver may refuse: those of these users in these rooms
KickFailures ==
    {[rooms |-> R, users |-> U] :
        R \in SUBSET {"!p1", "!p2", "!p3"},
        U \in {{"@a0"}, {"@a1", "@a2"}, {"@a2", "@b1"}}}

\* Bot.KickUser returns an error
KickFails(fails, userID, room) == room \in fails.rooms /\ userID \in fails.users

\* a variant of the check below that ignores dry run
KickCalledAlways == TRUE

\* line 112: the kick is issued unless the evaluator is in dry run
KickCalled == ~config.dryRun

\* a variant of the loop below that leaves the loop at the first failed kick
RECURSIVE KickRoomsStopAtError(_, _, _, _, _, _)
KickRoomsStopAtError(acc, userID, rooms, i, reason, fails) ==
    IF i > Len(rooms) THEN acc
    ELSE LET room == rooms[i]
             called == KickCalled
             failed == called /\ KickFails(fails, userID, room)
             out1 == IF called
                     THEN [acc.out EXCEPT !.kicks =
                              Append(@, [UserID |-> userID, RoomID |-> room,
                                         Reason |-> reason, ok |-> ~failed])]
                     ELSE acc.out
         IN  IF failed
             THEN [out |-> sendNotice(out1, Notice("FailedToKick", userID, room, 0, "")),
                   successCount |-> acc.successCount]
             ELSE KickRoomsStopAtError([out |-> out1,
                                        successCount |-> acc.successCount + 1],
                                       userID, rooms, i + 1, reason, fails)

\* lines 109-123: the rooms of one user from the i-th on; acc carries the
\* outcome so far and the success count
RECURSIVE KickRooms(_, _, _, _, _, _)
KickRooms(acc, userID, rooms, i, reason, fails) ==
    IF i > Len(rooms) THEN acc
    ELSE LET room == rooms[i]
             called == KickCalled
             failed == called /\ KickFails(fails, userID, room)
             out1 == IF called
                     THEN [acc.out EXCEPT !.kicks =
                              Append(@, [UserID |-> userID, RoomID |-> room,
                                         Reason |-> reason, ok |-> ~failed])]
                     ELSE acc.out
         IN  KickRooms(IF failed
                       THEN [out |-> sendNotice(out1, Notice("FailedToKick", userID,
                                                             room, 0, "")),
                             successCount |-> acc.successCount]
                       ELSE [out |-> out1, successCount |-> acc.successCount + 1],
                       userID, rooms, i + 1, reason, fails)

\* lines 102-125: the users from the k-th on
RECURSIVE KickUsers(_, _, _, _, _)
KickUsers(out, users, k, reason, fails) ==
    IF k > Len(users) THEN out
    ELSE LET userID == users[k]
             rooms == getRoomsUserIsIn(userID)
             done == KickRooms([out |-> out, successCount |-> 0], userID, rooms, 1,
                               reason, fails)
         IN  IF Len(rooms) = 0
             THEN KickUsers(out, users, k + 1, reason, fails)
             ELSE KickUsers(sendNotice(done.out,
                                       Notice("Kicked", userID, "", done.successCount,
                                              JoinSpace(rooms))),
                            users, k + 1, reason, fails)

\* a variant of the threshold below that ignores --force
OverUserLimitIgnoringForce(users, ignoreUserLimit) == Len(users) > KickUserLimit

\* line 97: the safety threshold
OverUserLimit(users, ignoreUserLimit) ==
    Len(users) > KickUserLimit /\ ~ignoreUserLimit

\* lines 85-130
HandleKick(out, cmd, args0) ==
    IF Len(args0) < 1
    THEN {sendNotice(out, Notice("Usage", cmd, "", 0, ""))}
    ELSE LET ignoreUserLimit == args0[1] = "--force"
             args == IF ignoreUserLimit THEN Drop(args0, 1) ELSE args0
         IN  IF Len(args) < 1 THEN {Panic(out)}
             ELSE LET reason == JoinSpace(Drop(args, 1))
                      users == findMatchingUsers(args[1])
                  IN  IF OverUserLimit(users, ignoreUserLimit)
                      THEN {sendNotice(out, Notice("TooManyUsers", args[1], "",
                                                   Len(users), ""))}
                      ELSE IF Len(users) = 0
                      THEN {sendNotice(out, Notice("NoUsers", args[1], "", 0, ""))}
                      ELSE {sendSuccessReaction(KickUsers(out, users, 1, reason, fails)) :
                                fails \in KickFailures}

(* ----------------------- !join, !leave, !redact ------------------------- *)

\* a call of the bot other than a kick or a state event, with its result
Call(op, arg, ok) == [op |-> op, arg |-> arg, ok |-> ok]

\* lines 45-52: the arguments from the i-th on; failed holds the positions
\* of the arguments whose JoinRoom returns an error
RECURSIVE JoinRooms(_, _, _, _)
JoinRooms(out, args, i, failed) ==
    IF i > Len(args) THEN out
    ELSE LET ok == i \notin failed
             out1 == [out EXCEPT !.calls = Append(@, Call("JoinRoom", args[i], ok))]
         IN  JoinRooms(sendNotice(out1, Notice(IF ok THEN "Joined" ELSE "FailedToJoin",
                                               args[i], "", 0, "")),
                       args, i + 1, failed)

\* lines 40-53
HandleJoin(out, cmd, args) ==
    IF Len(args) = 0
    THEN {sendNotice(out, Notice("Usage", cmd, "", 0, ""))}
    ELSE {sendSuccessReaction(JoinRooms(out, args, 1, failed)) :
            failed \in SUBSET (1..Len(args))}

\* Bot.ResolveAlias: the room of an alias of the directory, "" if unknown
ResolveAlias(alias) ==
    CASE alias = "#r1:x" -> "!r1:x"
      [] alias = "#r2:x" -> "!r2:x"
      [] OTHER -> ""

\* lines 70-77: the arguments from the i-th on; every call leaves target,
\* the notice names the argument
RECURSIVE LeaveRooms(_, _, _, _, _)
LeaveRooms(out, target, args, i, failed) ==
    IF i > Len(args) THEN out
    ELSE LET ok == i \notin failed
             out1 == [out EXCEPT !.calls = Append(@, Call("LeaveRoom", target, ok))]
         IN  LeaveRooms(sendNotice(out1, Notice(IF ok THEN "Left" ELSE "FailedToLeave",
                                                args[i], "", 0, "")),
                        target, args, i + 1, failed)

\* lines 54-77
HandleLeave(out, cmd, args) ==
    IF Len(args) = 0
    THEN {sendNotice(out, Notice("Usage", cmd, "", 0, ""))}
    ELSE LET leave(target) ==
                 {LeaveRooms(out, target, args, 1, failed) :
                    failed \in SUBSET (1..Len(args))}
         IN  IF HasPrefix(args[1], "#")
             THEN {sendNotice(out, Notice("FailedToResolveAlias", args[1], "", 0, ""))}
                  \cup (IF ResolveAlias(args[1]) # ""
                        THEN leave(ResolveAlias(args[1]))
                        ELSE {})
             ELSE leave(args[1])

\* lines 78-84
HandleRedact(out, cmd, args) ==
    IF Len(args) < 1
    THEN {sendNotice(out, Notice("Usage", cmd, "", 0, ""))}
    ELSE {sendSuccessReaction(
            [out EXCEPT !.calls =
                Append(@, Call("RedactUser",
                               args[1] \o " " \o JoinSpace(Drop(args, 1)), TRUE))])}

(* -------------------------------- !match -------------------------------- *)

\* util.DecodeBase64Hash: the string has the form of a digest
DecodeBase64Hash(s) == HasPrefix(s, "sha256:")

\* the users of the reverse index, filled when hashed bans are evaluated
HashedUsers == {"@a:x"}

\* pe.getUserIDFromHash(hash): the user with this digest, "" if none
getUserIDFromHash(hash) ==
    IF \E u \in HashedUsers : HashB64(u) = hash
    THEN CHOOSE u \in HashedUsers : HashB64(u) = hash
    ELSE ""

\* lines 279-340
HandleMatch(out, cmd, args) ==
    IF Len(args) = 0 THEN {Panic(out)}
    ELSE LET isHash == DecodeBase64Hash(args[1])
             targetUser == IF isHash THEN getUserIDFromHash(args[1]) ELSE args[1]
             target == targetUser
             out1 == IF isHash
                     THEN sendNotice(out, Notice("MatchedUserForHash", targetUser, "",
                                                 0, target))
                     ELSE out
             v == validateEntity(target)
             rooms == getRoomsUserIsIn(targetUser)
             out2 == IF v.type = EntityTypeUser /\ Len(rooms) > 0
                     THEN sendNotice(out1, Notice("UserInRooms", targetUser, "",
                                                  Len(rooms), JoinSpace(rooms)))
                     ELSE out1
             match == MatchGlobSet(ListRooms, v.type, target)
         IN  IF isHash /\ targetUser = ""
             THEN {sendNotice(out, Notice("NoUserForHash", args[1], "", 0, ""))}
             ELSE IF v.type = ""
             THEN {sendNotice(out1, Notice("InvalidEntity", target, "", 0, ""))}
             ELSE IF match # {}
             THEN {sendNotice(out2, Notice("Matched", target, "", Cardinality(match), ""))}
             ELSE {sendNotice(out2, Notice("NoMatch", target, "", 0, ""))}

(* ----------------------------- HandleCommand ---------------------------- *)

\* a variant of the gate below that lets every unencrypted event pass
DropCommandEncryptedOnly(evt) ==
    evt.WasEncrypted /\ evt.TrustState < TrustStateCrossSignedTOFU

\* lines 25-34: the event is dropped before its body is read
DropCommand(evt) ==
    \/ ~evt.WasEncrypted /\ config.cryptoHelper
    \/ evt.WasEncrypted /\ evt.TrustState < TrustStateCrossSignedTOFU

\* lines 24-341: every outcome the handler can have for this event
HandleCommandOutcomes(evt) ==
    LET fields == Fields(evt.Body)
        cmd == ToLower(fields[1])
        args == Drop(fields, 1)
        out == Outcome("command", IF fields = <<>> THEN "" ELSE cmd, evt)
    IN  IF DropCommand(evt) THEN {[out EXCEPT !.cmd = "", !.dropped = TRUE]}
        ELSE IF fields = <<>> THEN {Panic(out)}
        ELSE IF cmd = "!join" THEN HandleJoin(out, cmd, args)
        ELSE IF cmd = "!leave" THEN HandleLeave(out, cmd, args)
        ELSE IF cmd = "!redact" THEN HandleRedact(out, cmd, args)
        ELSE IF cmd = "!kick" THEN HandleKick(out, cmd, args)
        ELSE IF cmd \in {"!ban", "!takedown"} THEN HandleBan(out, cmd, args)
        ELSE IF cmd \in {"!remove-ban", "!remove-unban", "!remove-policy"}
             THEN HandleRemove(out, cmd, args)
        ELSE IF cmd = "!add-unban" THEN HandleAddUnban(out, cmd, args)
        ELSE IF cmd = "!match" THEN HandleMatch(out, cmd, args)
        ELSE {out}

(* ------------------------------ HandleReport ---------------------------- *)

\* pe.Admins
Admins == {"@admin:x"}

\* a variant of the gate below that does not look at the reporter
ReportNotEscalatedNoAdminCheck(sender, reason, targetUserID) ==
    ~HasPrefix(reason, "/") \/ targetUserID = ""

\* line 383: the report is only forwarded
ReportNotEscalated(sender, reason, targetUserID) ==
    sender \notin Admins \/ ~HasPrefix(reason, "/") \/ targetUserID = ""

\* lines 384-404
ForwardReport(out, r, targetUserID) ==
    IF r.eventID # ""
    THEN sendNotice(out, Notice("ReportedEvent", targetUserID, r.roomID, 0, r.reason))
    ELSE IF r.roomID # ""
    THEN sendNotice(out, Notice("ReportedRoom", "", r.roomID, 0, r.reason))
    ELSE IF targetUserID # ""
    THEN sendNotice(out, Notice("ReportedUser", targetUserID, "", 0, r.reason))
    ELSE out

\* a variant of the handler below that answers every standing record with
\* the same error
ReportBanWithMatchOneError(out, targetUserID, args, match) ==
    LET rec == BanOrUnban(match)
        list == FindListByShortcode(args[1])
        evt == SendPolicy(list.RoomID, EntityTypeUser, "", targetUserID,
                          Content(targetUserID, "", RecBan, JoinSpace(Drop(args, 1))))
    IN  IF rec # NilPolicy
        THEN {[out EXCEPT !.err = "FI.MAU.MEOWLNIR.ALREADY_BANNED"]}
        ELSE IF ~list.found
        THEN {[sendNotice(out, Notice("ReportListNotFound", targetUserID, "", 0, args[1]))
                 EXCEPT !.err = "M_NOT_FOUND"]}
        ELSE {[sendNotice([out EXCEPT !.sends = Append(@, [evt |-> evt, ok |-> FALSE])],
                          Notice("ReportFailed", targetUserID, list.RoomID, 0, ""))
                 EXCEPT !.err = "failed to send policy"],
              sendNotice([out EXCEPT !.sends = Append(@, [evt |-> evt, ok |-> TRUE])],
                         Notice("ReportProcessed", targetUserID, list.RoomID, 0,
                                evt.Content.Reason))}

\* lines 415-429 and 430-456, for one order of the match
ReportBanWithMatch(out, targetUserID, args, match) ==
    LET rec == BanOrUnban(match)
        list == FindListByShortcode(args[1])
        evt == SendPolicy(list.RoomID, EntityTypeUser, "", targetUserID,
                          Content(targetUserID, "", RecBan, JoinSpace(Drop(args, 1))))
    IN  IF rec # NilPolicy
        THEN IF rec.Content.Recommendation = RecUnban
             THEN {[out EXCEPT !.err = "FI.MAU.MEOWLNIR.UNBAN_RECOMMENDED"]}
             ELSE {[out EXCEPT !.err = "FI.MAU.MEOWLNIR.ALREADY_BANNED"]}
        ELSE IF ~list.found
        THEN {[sendNotice(out, Notice("ReportListNotFound", targetUserID, "", 0, args[1]))
                 EXCEPT !.err = "M_NOT_FOUND"]}
        ELSE {[sendNotice([out EXCEPT !.sends = Append(@, [evt |-> evt, ok |-> FALSE])],
                          Notice("ReportFailed", targetUserID, list.RoomID, 0, ""))
                 EXCEPT !.err = "failed to send policy"],
              sendNotice([out EXCEPT !.sends = Append(@, [evt |-> evt, ok |-> TRUE])],
                         Notice("ReportProcessed", targetUserID, list.RoomID, 0,
                                evt.Content.Reason))}

\* lines 383-457, once the target user is known
ReportAfterFetch(out, r, targetUserID) ==
    IF ReportNotEscalated(r.sender, r.reason, targetUserID)
    THEN {ForwardReport(out, r, targetUserID)}
    ELSE LET fields == Fields(r.reason)
             cmd == TrimPrefix(fields[1], "/")
             args == Drop(fields, 1)
         IN  IF ToLower(cmd) = "ban"
             THEN IF Len(args) < 2 THEN {[out EXCEPT !.err = "M_INVALID_PARAM"]}
                  ELSE UNION {ReportBanWithMatch(out, targetUserID, args, match) :
                                match \in Orderings(
                                    MatchGlobSet(GetWatchedLists, EntityTypeUser,
                                                 targetUserID))}
             ELSE {out}

\* the senders of the events a report may point at
EventSenders == {"@a:x"}

\* what the handler is given and what it learns from GetEvent: the report,
\* the result of the fetch and the target user after it
ReportInput(r, fetch, targetUserID) ==
    [report |-> r, fetch |-> fetch, targetUserID |-> targetUserID]

\* lines 367-458: every outcome the handler can have for this report
HandleReportOutcomes(r) ==
    IF r.eventID # ""
    THEN {[sendNotice(Outcome("report", "", ReportInput(r, "failed", r.targetUserID)),
                      Notice("ReportFetchFailed", "", r.roomID, 0, r.reason))
             EXCEPT !.err = "failed to fetch event"]}
         \cup UNION {ReportAfterFetch(Outcome("report", "", ReportInput(r, "ok", sender)),
                                      r, sender) : sender \in EventSenders}
    ELSE ReportAfterFetch(Outcome("report", "", ReportInput(r, "none", r.targetUserID)),
                          r, r.targetUserID)

(* ------------------------------- inputs --------------------------------- *)

\* the commands on the policy lists that a moderator sends
PolicyBodies ==
    {"!ban l1 @a:x spam", "!ban l1 @a:x", "!ban l2 @a:x spam",
     "!ban --hash l1 @a:x spam", "!takedown l1 @a:x spam",
     "!takedown --hash l1 @a:x", "!takedown l2 @a:x",
     "!add-unban l1 @a:x ok", "!add-unban l2 @a:x fine",
     "!remove-ban l1 @a:x", "!remove-unban l1 @a:x", "!remove-policy l1 @a:x",
     "!remove-policy l2 @a:x",
     "!ban l1 !r:x spam", "!add-unban l1 !r:x ok", "!remove-policy l1 !r:x",
     "!ban l1 @*:x spam", "!ban l2 x.org spam",
     "!ban l1 bad spam", "!add-unban l1 bad ok",
     "!ban zz @a:x spam", "!remove-ban zz @a:x", "!add-unban zz @a:x ok",
     "", "!ban", "!ban --hash l1", "!remove-ban l1", "!add-unban l1",
     "!BAN l1 @a:x spam", "!unknown l1 @a:x"}

\* the !kick commands
KickBodies ==
    {"!kick" \o flag \o " " \o pattern \o reason :
        flag \in {"", " --force"},
        pattern \in {"@*", "@a*", "@b*", "@a1", "@?2", "@z*"},
        reason \in {"", " spam"}}
    \cup {"!kick", "!kick --force", "!KICK @b*"}

\* the transport's view of a command event: unencrypted, or encrypted with a
\* trust state (50 is cross-signed untrusted, 100 cross-signed TOFU)
Channels ==
    {[WasEncrypted |-> FALSE, TrustState |-> 0],
     [WasEncrypted |-> TRUE, TrustState |-> 50],
     [WasEncrypted |-> TRUE, TrustState |-> 100]}

TrustedChannel == [WasEncrypted |-> TRUE, TrustState |-> 100]

CommandEvent(channel, body) ==
    [WasEncrypted |-> channel.WasEncrypted, TrustState |-> channel.TrustState,
     Body |-> body]

Report(sender, targetUserID, roomID, eventID, reason) ==
    [sender |-> sender, targetUserID |-> targetUserID, roomID |-> roomID,
     eventID |-> eventID, reason |-> reason]

\* the reports of an admin and of another user on a user, a room and an event
Reports ==
    {Report(sender, t[1], t[2], t[3], reason) :
        sender \in {"@admin:x", "@mallory:x"},
        t \in {<<"@a:x", "", "">>, <<"", "!r:x", "">>, <<"", "!r:x", "$e">>,
               <<"", "", "">>},
        reason \in {"spam", "/ban l1 spam", "/ban zz spam", "/ban l1", "/",
                    "/BAN l2 abuse", "/kick l1 spam"}}

\* the commands that fill the lists before a report arrives
ReportBodies ==
    {"!ban l1 @a:x spam", "!ban l1 @a:x", "!ban l2 @a:x spam",
     "!takedown l1 @a:x spam", "!add-unban l1 @a:x ok", "!ban l1 @*:x spam",
     "!remove-policy l1 @a:x"}

(* ------------------------------- actions -------------------------------- *)

Configs ==
    [cryptoHelper : BOOLEAN, dryRun : BOOLEAN, takedownInSummary : BOOLEAN]

Workers == 1..NumWorkers

\* a goroutine that handles no event
Idle == [phase |-> "idle"]

InitWith(configs) ==
    /\ policies = {}
    /\ config \in configs
    /\ last = Outcome("", "", [Body |-> ""])
    /\ nsent = 0
    /\ inflight = [w \in Workers |-> Idle]

\* the state events the handler sent with success, applied in order
RECURSIVE ApplySends(_, _)
ApplySends(state, sends) ==
    IF sends = <<>> THEN state
    ELSE ApplySends(IF Head(sends).ok THEN SendStateEvent(state, Head(sends).evt)
                    ELSE state,
                    Tail(sends))

\* HandleCommand(ctx, evt)
HandleCommand(evt) ==
    /\ \E out \in HandleCommandOutcomes(evt) :
        /\ last' = out
        /\ policies' = ApplySends(policies, out.sends)
        /\ nsent' = nsent + Len(out.sends)
    /\ UNCHANGED <<config, inflight>>

\* HandleReport(ctx, senderClient, targetUserID, roomID, eventID, reason)
HandleReport(r) ==
    /\ \E out \in HandleReportOutcomes(r) :
        /\ last' = out
        /\ policies' = ApplySends(policies, out.sends)
        /\ nsent' = nsent + Len(out.sends)
    /\ UNCHANGED <<config, inflight>>

(* Spec: the commands on the policy lists *)

Init == InitWith({c \in Configs : c.cryptoHelper /\ ~c.dryRun})

PolicyCommand ==
    \E body \in PolicyBodies :
        /\ HandleCommand(CommandEvent(TrustedChannel, body))
        /\ nsent' <= MaxSends

Next == PolicyCommand

Spec == Init /\ [][Next]_vars

(* SpecReport: the reports, and the commands that fill the lists for them *)

ReportCommand ==
    \E body \in ReportBodies :
        /\ HandleCommand(CommandEvent(TrustedChannel, body))
        /\ nsent' <= MaxReportSends

AnyReport ==
    \E r \in Reports :
        /\ HandleReport(r)
        /\ nsent' <= MaxReportSends

NextReport == ReportCommand \/ AnyReport

SpecReport == Init /\ [][NextReport]_vars

(* SpecKick: the !kick commands, with and without dry run *)

InitKick == InitWith({c \in Configs : c.cryptoHelper /\ ~c.takedownInSummary})

KickCommand ==
    \E body \in KickBodies : HandleCommand(CommandEvent(TrustedChannel, body))

NextKick == KickCommand

SpecKick == InitKick /\ [][NextKick]_vars

(* SpecGate: commands over every channel, with and without a crypto helper *)

InitGate == InitWith({c \in Configs : ~c.dryRun /\ ~c.takedownInSummary})

GateBodies ==
    {"!ban l1 @a:x spam", "!takedown --hash l2 x.org", "!remove-policy l1 @a:x",
     "!add-unban l1 @a:x ok", "!kick @b*", "!kick --force @* spam",
     "!unknown l1 @a:x", "", "!ban --hash l1",
     "!join !r1:x !r2:x", "!leave #r1:x !r2:x", "!redact @a:x spam",
     "!match @a:x", "!match sha256:@a:x", "!match"}

GateCommand ==
    \E channel \in Channels : \E body \in GateBodies :
        /\ HandleCommand(CommandEvent(channel, body))
        /\ nsent' <= MaxSends

NextGate == GateCommand

SpecGate == InitGate /\ [][NextGate]_vars

(* SpecSend: the mutating commands on one user, each with a send that may  *)
(* fail                                                                     *)

SendBodies ==
    {"!ban l1 @a:x spam", "!ban --hash l1 @a:x spam", "!takedown l1 @a:x spam",
     "!add-unban l1 @a:x ok", "!add-unban l2 @a:x fine",
     "!remove-ban l1 @a:x", "!remove-unban l1 @a:x", "!remove-policy l1 @a:x",
     "!ban l1 bad spam", "!remove-ban zz @a:x", "!add-unban l1"}

SendCommand ==
    \E body \in SendBodies :
        /\ HandleCommand(CommandEvent(TrustedChannel, body))
        /\ nsent' <= MaxSends

NextSend == SendCommand

SpecSend == Init /\ [][NextSend]_vars

(* SpecConflict: the '/ban' reports of an admin, and the commands that fill *)
(* the lists for them                                                       *)

ConflictReports ==
    {Report("@admin:x", "@a:x", "", "", reason) :
        reason \in {"/ban l1 spam", "/ban l2 abuse", "/ban zz spam", "/BAN l1 x y"}}
    \cup {Report("@admin:x", "", "!r:x", "$e", "/ban l1 spam")}

ConflictCommand ==
    \E body \in ReportBodies :
        /\ HandleCommand(CommandEvent(TrustedChannel, body))
        /\ nsent' <= MaxReportSends

ConflictReport ==
    \E r \in ConflictReports :
        /\ HandleReport(r)
        /\ nsent' <= MaxReportSends

NextConflict == ConflictCommand \/ ConflictReport

SpecConflict == Init /\ [][NextConflict]_vars

(* SpecEntity: validateEntity on every short string over an alphabet with   *)
(* the characters it tells apart, and on some entities as they are written  *)

EntityAlphabet == {"@", "!", "a", "7", ".", "*", "-", " ", ":"}

RECURSIVE StringsUpTo(_)
StringsUpTo(n) ==
    IF n = 0 THEN {""}
    ELSE LET shorter == StringsUpTo(n - 1)
         IN  shorter \cup {s \o c : s \in shorter, c \in EntityAlphabet}

EntityInputs ==
    StringsUpTo(MaxEntityLen)
    \cup {"@a:b", "!x:y", "example.org", "not valid", "*.example.org",
          "example.org:8448", "a.b.", ".org", "#alias:x", "localhost"}

InitEntity ==
    InitWith({c \in Configs : c.cryptoHelper /\ ~c.dryRun /\ ~c.takedownInSummary})

\* validateEntity(entity), called once on the input chosen
ValidateEntityCall(entity) ==
    /\ last.op = ""
    /\ last' = [op |-> "validateEntity", input |-> entity,
                result |-> validateEntity(entity)]
    /\ UNCHANGED <<policies, config, nsent, inflight>>

AnyEntity == \E entity \in EntityInputs : ValidateEntityCall(entity)

NextEntity == AnyEntity

SpecEntity == InitEntity /\ [][NextEntity]_vars

(* SpecConc: two goroutines handle commands on one entity at the same time; *)
(* a handler runs up to its call of SendStateEvent, and the call completes  *)
(* in a later step                                                          *)

ConcBodies == {"!ban l1 @a:x spam", "!ban l1 @a:x", "!add-unban l1 @a:x ok"}

\* HandleCommand from its start to the call of Bot.SendStateEvent
BeginCommand(w, evt) ==
    /\ inflight[w].phase = "idle"
    /\ \E out \in HandleCommandOutcomes(evt) :
        IF out.sends = <<>>
        THEN /\ last' = out
             /\ UNCHANGED inflight
        ELSE /\ inflight' = [inflight EXCEPT ![w] = [phase |-> "sending", out |-> out]]
             /\ UNCHANGED last
    /\ UNCHANGED <<policies, config, nsent>>

\* Bot.SendStateEvent returns and HandleCommand runs to its end
EndCommand(w) ==
    /\ inflight[w].phase = "sending"
    /\ last' = inflight[w].out
    /\ policies' = ApplySends(policies, inflight[w].out.sends)
    /\ nsent' = nsent + Len(inflight[w].out.sends)
    /\ inflight' = [inflight EXCEPT ![w] = Idle]
    /\ UNCHANGED config

Sending == {w \in Workers : inflight[w].phase = "sending"}

ConcBegin ==
    \E w \in Workers : \E body \in ConcBodies :
        /\ nsent + Cardinality(Sending) < MaxConcSends
        /\ BeginCommand(w, CommandEvent(TrustedChannel, body))

ConcEnd == \E w \in Workers : EndCommand(w)

NextConc == ConcBegin \/ ConcEnd

SpecConc == Init /\ [][NextConc]_vars

(* ======================== properties of the handlers ===================== *)

\* the arguments of a !ban or !takedown after the verb and the --hash flag
BanArgs(out) ==
    LET args == Drop(Fields(out.input.Body), 1)
    IN  IF args # <<>> /\ args[1] = "--hash" THEN Drop(args, 1) ELSE args

\* the handler that ran was a well-formed !ban or !takedown on a known list
IsBan(out) ==
    /\ out.op = "command"
    /\ out.cmd \in {"!ban", "!takedown"}
    /\ Len(BanArgs(out)) >= 2
    /\ FindListByShortcode(BanArgs(out)[1]).found

BanList(out) == FindListByShortcode(BanArgs(out)[1]).RoomID
BanTarget(out) == BanArgs(out)[2]

\* the strings that name an entity in the commands
Entities == {"@a:x", "@*:x", "!r:x", "x.org", "bad"}

\* the active policies of a list room about an entity
ActivePolicies(room, entity) ==
    {p \in policies : p.RoomID = room /\ PolicyIsAbout(p, entity)}

\* C1: every list room holds at most one active policy record for any
\* entity, whatever !ban, !takedown, !add-unban and !remove-* commands were
\* handled and whatever the other lists hold.
C1_AtMostOneActiveRecord ==
    \A room \in ListRooms : \A entity \in Entities :
        Cardinality(ActivePolicies(room, entity)) <= 1

\* an unban published for the entity stands in a watched list
StandingUnban(entity) ==
    \E p \in policies : /\ p.RoomID \in GetWatchedLists
                        /\ p.Content.Recommendation = RecUnban
                        /\ p.Content.Entity = entity

\* C2: from the moment an !add-unban for E has been published until that
\* unban is removed, a !ban or !takedown for E on any list publishes nothing
\* and sends one notice that carries the reason of the unban.
C2_UnbanBlocksBan ==
    [][\A entity \in Entities :
          (StandingUnban(entity) /\ IsBan(last') /\ BanTarget(last') = entity)
          => /\ last'.sends = <<>>
             /\ Len(last'.notices) = 1
             /\ last'.notices[1].kind = "UnbanRecommendation"
             /\ \E p \in policies : /\ p.Content.Recommendation = RecUnban
                                    /\ p.Content.Entity = entity
                                    /\ p.Content.Reason = last'.notices[1].text]_vars

\* the handler that ran was '!ban <list> <entity> [reason]' and it sent
IsPlainBanSent(out) ==
    /\ IsBan(out)
    /\ out.cmd = "!ban"
    /\ Fields(out.input.Body)[2] # "--hash"
    /\ out.sends # <<>>

\* C7: two '!ban <list> E' in a row send their state events under the same
\* state key.
C7_SecondBanReusesStateKey ==
    [][(/\ IsPlainBanSent(last) /\ last.sends[1].ok
        /\ IsPlainBanSent(last')
        /\ BanList(last') = BanList(last)
        /\ BanTarget(last') = BanTarget(last))
       => last'.sends[1].evt.StateKey = last.sends[1].evt.StateKey]_vars

\* the handler did nothing that anyone can observe
Quiet(out) ==
    /\ out.notices = <<>>
    /\ ~out.reaction
    /\ out.sends = <<>>
    /\ out.kicks = <<>>
    /\ out.calls = <<>>
    /\ ~out.crashed

\* the report is one the gate of HandleReport must only forward
GatedReport(out) ==
    /\ out.op = "report"
    /\ \/ out.input.report.sender \notin Admins
       \/ ~HasPrefix(out.input.report.reason, "/")
       \/ out.input.fetch = "failed"
       \/ out.input.targetUserID = ""

\* C3: a report of a non-admin, or with a reason that does not start with
\* '/', or without a resolved target user, sends no state event, kicks
\* nobody and sends no reaction; all it does is send at most one notice.
C3_GatedReportOnlyNotifies ==
    GatedReport(last)
    => /\ last.sends = <<>>
       /\ last.kicks = <<>>
       /\ last.calls = <<>>
       /\ ~last.reaction
       /\ Len(last.notices) <= 1
       /\ (last.input.fetch # "failed" => last.err = "")

C3_Witness ==
    /\ last.op = "report"
    /\ last.input.report.sender = "@mallory:x"
    /\ last.input.report.reason = "/ban l1 spam"
    /\ last.input.targetUserID = "@a:x"
    /\ Len(last.notices) = 1
    /\ last.notices[1].kind = "ReportedUser"
    /\ policies # {}

(* ---- the !kick properties ---- *)

KickArgs(out) ==
    LET args == Drop(Fields(out.input.Body), 1)
    IN  IF args # <<>> /\ args[1] = "--force" THEN Drop(args, 1) ELSE args

KickForce(out) ==
    LET args == Drop(Fields(out.input.Body), 1)
    IN  args # <<>> /\ args[1] = "--force"

\* the handler that ran was a !kick with a pattern
IsKick(out) ==
    /\ out.op = "command"
    /\ out.cmd = "!kick"
    /\ ~out.dropped
    /\ KickArgs(out) # <<>>

KickMatched(out) == findMatchingUsers(KickArgs(out)[1])

\* the indexes of the kick calls for this user in this room
KickCalls(out, userID, room) ==
    {i \in 1..Len(out.kicks) :
        out.kicks[i].UserID = userID /\ out.kicks[i].RoomID = room}

\* the indexes of the notices of this kind about this user
NoticesAbout(out, kind, userID) ==
    {i \in 1..Len(out.notices) :
        out.notices[i].kind = kind /\ out.notices[i].subject = userID}

InSeq(x, seq) == \E i \in 1..Len(seq) : seq[i] = x

\* C4: a !kick whose pattern matches more than 10 users and has no --force
\* sends one notice with the count and kicks nobody; with --force every
\* matched user that is in a room is processed, whatever the count.
C4_KickThreshold ==
    IsKick(last)
    => LET users == KickMatched(last)
       IN  /\ (Len(users) > KickUserLimit /\ ~KickForce(last))
              => /\ last.kicks = <<>>
                 /\ ~last.reaction
                 /\ Len(last.notices) = 1
                 /\ last.notices[1].kind = "TooManyUsers"
                 /\ last.notices[1].count = Len(users)
           /\ KickForce(last)
              => \A k \in 1..Len(users) :
                    LET rooms == getRoomsUserIsIn(users[k])
                    IN  rooms # <<>>
                        => /\ NoticesAbout(last, "Kicked", users[k]) # {}
                           /\ ~config.dryRun
                              => \A j \in 1..Len(rooms) :
                                    KickCalls(last, users[k], rooms[j]) # {}

C4_Witness ==
    /\ IsKick(last)
    /\ ~KickForce(last)
    /\ Len(KickMatched(last)) > KickUserLimit
    /\ last.kicks = <<>>
    /\ Len(last.notices) = 1
    /\ last.notices[1].count = Len(KickMatched(last))

\* the !kick went past the threshold
KickRan(out) ==
    /\ IsKick(out)
    /\ ~(Len(KickMatched(out)) > KickUserLimit /\ ~KickForce(out))

\* C5: without dry run, a !kick attempts every (user, room) membership pair
\* exactly once and nothing else, whatever kicks fail; each failed kick has
\* its own notice, and the count in a user's summary is the number of that
\* user's rooms whose kick did not fail.
C5_KickPartialFailure ==
    (KickRan(last) /\ ~config.dryRun)
    => LET users == KickMatched(last)
       IN  /\ \A k \in 1..Len(users) :
                LET rooms == getRoomsUserIsIn(users[k])
                    failed == {j \in 1..Len(rooms) :
                                 \E i \in KickCalls(last, users[k], rooms[j]) :
                                    ~last.kicks[i].ok}
                IN  /\ \A j \in 1..Len(rooms) :
                          Cardinality(KickCalls(last, users[k], rooms[j])) = 1
                    /\ Cardinality(NoticesAbout(last, "FailedToKick", users[k]))
                          = Cardinality(failed)
                    /\ \A j \in failed :
                          \E i \in NoticesAbout(last, "FailedToKick", users[k]) :
                             last.notices[i].room = rooms[j]
                    /\ rooms # <<>>
                       => /\ Cardinality(NoticesAbout(last, "Kicked", users[k])) = 1
                          /\ \A i \in NoticesAbout(last, "Kicked", users[k]) :
                                last.notices[i].count = Len(rooms) - Cardinality(failed)
           /\ \A i \in 1..Len(last.kicks) :
                /\ InSeq(last.kicks[i].UserID, users)
                /\ InSeq(last.kicks[i].RoomID, getRoomsUserIsIn(last.kicks[i].UserID))

\* the second of the three rooms of @a2 fails; @a2 and the users after it
\* are still kicked from their other rooms
C5_Witness ==
    /\ KickRan(last)
    /\ ~config.dryRun
    /\ \E i \in KickCalls(last, "@a2", "!p2") : ~last.kicks[i].ok
    /\ \E i \in KickCalls(last, "@a2", "!p3") : last.kicks[i].ok
    /\ \E i \in NoticesAbout(last, "Kicked", "@a2") : last.notices[i].count = 2
    /\ \E i \in KickCalls(last, "@a4", "!p1") : last.kicks[i].ok

\* C6: in dry run a !kick issues no kick call, reports no failure, and the
\* count in each user's summary is the number of rooms the user is in.
C6_DryRunKick ==
    (IsKick(last) /\ config.dryRun)
    => /\ last.kicks = <<>>
       /\ \A i \in 1..Len(last.notices) :
            /\ last.notices[i].kind # "FailedToKick"
            /\ last.notices[i].kind = "Kicked"
               => last.notices[i].count = Len(getRoomsUserIsIn(last.notices[i].subject))
       /\ KickRan(last)
          => \A k \in 1..Len(KickMatched(last)) :
                getRoomsUserIsIn(KickMatched(last)[k]) # <<>>
                => NoticesAbout(last, "Kicked", KickMatched(last)[k]) # {}

C6_Witness ==
    /\ IsKick(last)
    /\ config.dryRun
    /\ last.kicks = <<>>
    /\ last.reaction
    /\ \E i \in NoticesAbout(last, "Kicked", "@a2") : last.notices[i].count = 3

(* ---- the gate of HandleCommand ---- *)

\* C8 as stated: a command that arrived unencrypted, or encrypted with a
\* trust state below cross-signed TOFU, does nothing observable, whatever
\* the configuration of the bot.
C8_UntrustedCommandDroppedAlways ==
    (/\ last.op = "command"
     /\ \/ ~last.input.WasEncrypted
        \/ last.input.TrustState < TrustStateCrossSignedTOFU)
    => Quiet(last)

\* C8, amended: a command that arrived unencrypted while the bot has a
\* crypto helper, or encrypted with a trust state below cross-signed TOFU,
\* is dropped before its body is read: no notice, no reaction, no state
\* event, no kick, and no panic on an empty body.
C8_UntrustedCommandDropped ==
    (/\ last.op = "command"
     /\ \/ ~last.input.WasEncrypted /\ config.cryptoHelper
        \/ last.input.WasEncrypted
           /\ last.input.TrustState < TrustStateCrossSignedTOFU)
    => Quiet(last) /\ last.dropped

C8_Witness ==
    /\ last.op = "command"
    /\ ~last.input.WasEncrypted
    /\ config.cryptoHelper
    /\ last.input.Body = "!ban l1 @a:x spam"
    /\ last.dropped
    /\ Quiet(last)
    /\ policies # {}

(* ---- the report path against the command path ---- *)

\* the report '/ban <code> spam' of an admin on a user, and the command
\* '!ban <code> <user> spam'
BanReportOf(code, user) ==
    Report("@admin:x", user, "", "", "/ban " \o code \o " spam")

BanCommandOf(code, user) ==
    CommandEvent(TrustedChannel, "!ban " \o code \o " " \o user \o " spam")

KnownCodes == {"l1", "l2"}
ReportedUsers == {"@a:x"}

PlainPolicies(room, user) ==
    {p \in policies : /\ p.RoomID = room
                      /\ p.Type = EntityTypeUser
                      /\ p.Content.Entity = user}

C10_AtMostOneActiveRecordConcurrent ==
    (\A w \in Workers : inflight[w].phase = "idle")
    => \A room \in ListRooms : \A entity \in Entities :
          Cardinality(ActivePolicies(room, entity)) <= 1

(* ---- the removal commands ---- *)

RemoveVerbs == {"!remove-ban", "!remove-unban", "!remove-policy"}

\* the handler that ran was a removal with a list that exists and an entity
IsRemove(out) ==
    /\ out.op = "command"
    /\ out.cmd \in RemoveVerbs
    /\ Len(Fields(out.input.Body)) >= 3
    /\ FindListByShortcode(Fields(out.input.Body)[2]).found

RemoveList(out) == FindListByShortcode(Fields(out.input.Body)[2]).RoomID
RemoveTarget(out) == Fields(out.input.Body)[3]

\* the records of a list room that match the entity exactly, whatever
\* their event type
RecordsOf(state, room, entity) ==
    {p \in state : p.RoomID = room /\ PolicyIsAbout(p, entity)}

\* C11: a removal sends nothing when the target list has no record of the
\* entity; what !remove-ban sends replaces a record whose recommendation is
\* m.ban, what !remove-unban sends replaces an unban, and !remove-policy
\* sends whatever the kind of the record is.
C11_RemovalOnlyOfRequestedKind ==
    [][IsRemove(last')
       => LET found == RecordsOf(policies, RemoveList(last'), RemoveTarget(last'))
              replaced == {p \in found :
                             /\ last'.sends # <<>>
                             /\ p.Type = last'.sends[1].evt.Type
                             /\ p.StateKey = last'.sends[1].evt.StateKey}
          IN  /\ found = {} => last'.sends = <<>>
              /\ (last'.cmd = "!remove-ban" /\ last'.sends # <<>>)
                 => \E p \in replaced : p.Content.Recommendation = RecBan
              /\ (last'.cmd = "!remove-unban" /\ last'.sends # <<>>)
                 => \E p \in replaced : p.Content.Recommendation = RecUnban
              /\ (/\ last'.cmd = "!remove-policy"
                  /\ \E p \in found : p.Type = validateEntity(RemoveTarget(last')).type)
                 => last'.sends # <<>>]_vars

\* C12: what a removal sends is an empty content under the state key of a
\* record that the target list holds for the entity, and once the send has
\* succeeded that record is not active any more.
C12_RemovalTombstonesExistingRecord ==
    [][(IsRemove(last') /\ last'.sends # <<>>)
       => /\ last'.sends[1].evt.Content = EmptyContent
          /\ last'.sends[1].evt.RoomID = RemoveList(last')
          /\ \E p \in RecordsOf(policies, RemoveList(last'), RemoveTarget(last')) :
                /\ p.Type = last'.sends[1].evt.Type
                /\ p.StateKey = last'.sends[1].evt.StateKey
                /\ last'.sends[1].ok => p \notin policies']_vars

(* ---- !add-unban ---- *)

\* the handler that ran was an !add-unban with a list that exists and an
\* entity
IsAddUnban(out) ==
    /\ out.op = "command"
    /\ out.cmd = "!add-unban"
    /\ Len(Fields(out.input.Body)) >= 3
    /\ FindListByShortcode(Fields(out.input.Body)[2]).found

AddUnbanList(out) == FindListByShortcode(Fields(out.input.Body)[2]).RoomID
AddUnbanTarget(out) == Fields(out.input.Body)[3]

\* C13: an !add-unban for E sends nothing but one notice when an unban for
\* E stands in a watched list; when it sends and the target list holds a
\* record of E, it sends under the state key of such a record.
C13_AddUnbanReusesRecordOfList ==
    [][IsAddUnban(last')
       => LET target == AddUnbanTarget(last')
              found == RecordsOf(policies, AddUnbanList(last'), target)
          IN  /\ StandingUnban(target)
                 => /\ last'.sends = <<>>
                    /\ Len(last'.notices) = 1
                    /\ ~last'.reaction
              /\ (last'.sends # <<>> /\ found # {})
                 => \E p \in found : p.StateKey = last'.sends[1].evt.StateKey]_vars

(* ---- the conflict errors of the report path ---- *)

\* the handler that ran was a report of an admin on a user with the reason
\* '/ban <list> <reason...>'
IsPrivilegedBan(out) ==
    /\ out.op = "report"
    /\ out.input.fetch # "failed"
    /\ out.input.report.sender \in Admins
    /\ out.input.targetUserID # ""
    /\ HasPrefix(out.input.report.reason, "/")
    /\ Len(Fields(out.input.report.reason)) >= 3
    /\ ToLower(Fields(out.input.report.reason)[1]) = "/ban"

\* the records of the watched lists that match a user, of one recommendation
StandingFor(state, user, recommendation) ==
    {p \in state : /\ p.RoomID \in GetWatchedLists
                   /\ p.Type = EntityTypeUser
                   /\ p.Content.Recommendation = recommendation
                   /\ \/ PolicyIsAbout(p, user)
                      \/ p.Content.Entity # "" /\ GlobMatch(p.Content.Entity, user)}

C15_NoHandlerCrashes == ~last.crashed

(* ---- validateEntity ---- *)

\* C16: validateEntity gives exactly one of four results for every string:
\* the empty string is invalid, a string that starts with '@' is a user, one
\* that starts with '!' is a room, any other string is a server if it
\* matches the hostname pattern and is invalid if it does not.
C16_ValidateEntityTotalExclusive ==
    last.op = "validateEntity"
    => LET s == last.input
           r == last.result
       IN  /\ r.ok \in BOOLEAN
           /\ r.type \in {"", EntityTypeUser, EntityTypeRoom, EntityTypeServer}
           /\ r.ok <=> r.type # ""
           /\ r.type = EntityTypeUser <=> HasPrefix(s, "@")
           /\ r.type = EntityTypeRoom <=> HasPrefix(s, "!")
           /\ r.type = EntityTypeServer
              <=> (~HasPrefix(s, "@") /\ ~HasPrefix(s, "!") /\ homeserverPatternRegex(s))
           /\ s = "" => ~r.ok
           /\ s = "@a:b" => r = [type |-> EntityTypeUser, ok |-> TRUE]
           /\ s = "!x:y" => r = [type |-> EntityTypeRoom, ok |-> TRUE]
           /\ s = "example.org" => r = [type |-> EntityTypeServer, ok |-> TRUE]
           /\ s = "not valid" => r = [type |-> "", ok |-> FALSE]

\* a room ID has been classified
C16_Witness ==
    /\ last.op = "validateEntity"
    /\ last.input = "!x:y"
    /\ last.result = [type |-> EntityTypeRoom, ok |-> TRUE]

(* ---- the classifier in the mutating commands ---- *)

MutatingVerbs == {"!ban", "!takedown", "!add-unban"} \cup RemoveVerbs

\* the entity argument of a mutating command that has sent
MutatingTarget(out) ==
    IF out.cmd \in {"!ban", "!takedown"} THEN BanArgs(out)[2]
    ELSE Fields(out.input.Body)[3]

\* C17: a mutating command sends a state event only if validateEntity
\* accepts its target, and the event type of what it sends is the one of
\* the kind validateEntity gives for the target.
C17_PublishOnlyClassifiedEntity ==
    (/\ last.op = "command"
     /\ last.cmd \in MutatingVerbs
     /\ last.sends # <<>>)
    => /\ validateEntity(MutatingTarget(last)).ok
       /\ last.sends[1].evt.Type = validateEntity(MutatingTarget(last)).type

(* ---- the result of the send in the mutating commands ---- *)

FailureNotices == {"FailedToSendBan", "FailedToRemove", "FailedToSendUnban"}

\* C18: a mutating command tries to send at most one state event; it sends
\* the success reaction only if that send has succeeded; if the send has
\* failed, it sends one notice of the failure and no success reaction.
C18_OneSendReactionAfterSuccess ==
    (last.op = "command" /\ last.cmd \in MutatingVerbs)
    => /\ Len(last.sends) <= 1
       /\ last.reaction => (Len(last.sends) = 1 /\ last.sends[1].ok)
       /\ (last.sends # <<>> /\ ~last.sends[1].ok)
          => /\ ~last.reaction
             /\ Len(last.notices) = 1
             /\ last.notices[1].kind \in FailureNotices
             /\ last.notices[1].text # ""

\* a !remove-policy whose send failed: a notice and no reaction, and the
\* record is still active
C18_Witness ==
    /\ last.op = "command"
    /\ last.cmd = "!remove-policy"
    /\ Len(last.sends) = 1
    /\ ~last.sends[1].ok
    /\ ~last.reaction
    /\ Len(last.notices) = 1
    /\ last.notices[1].kind = "FailedToRemove"
    /\ policies # {}

(* ---- no report is lost ---- *)

\* C19: every report that HandleReport is given ends in at least one notice
\* or in a returned error.
C19_ReportLeavesTrace ==
    last.op = "report" => (last.notices # <<>> \/ last.err # "")

(* ---- !leave ---- *)

\* the room an argument of !leave names: the room of an alias, or the room
\* ID as it is written
LeaveArgRoom(arg) == IF HasPrefix(arg, "#") THEN ResolveAlias(arg) ELSE arg

\* C20: a !leave that gets to its leave calls issues one call for each of
\* its arguments, in order, each for the room that argument names.
C20_LeaveEveryListedRoom ==
    (/\ last.op = "command"
     /\ last.cmd = "!leave"
     /\ last.calls # <<>>)
    => LET args == Drop(Fields(last.input.Body), 1)
       IN  /\ Len(last.calls) = Len(args)
           /\ \A i \in 1..Len(args) :
                /\ last.calls[i].op = "LeaveRoom"
                /\ last.calls[i].arg = LeaveArgRoom(args[i])

====
